---- MODULE Spec2Model ----
(***************************************************************************)
(* Radial-basis-function (RBF) descriptor of ml-iap/descriptor.py.         *)
(*                                                                         *)
(* The module's functions are pure numpy computations on float64 arrays.   *)
(* A float64 is modelled as a record: a finite value is a fixed-point      *)
(* integer (the real value times SCALE, rounded to nearest), and the two   *)
(* special results the code can produce, NaN and +-Inf, are kept as such,  *)
(* with IEEE-754 rules for the operations the code applies to them.        *)
(***************************************************************************)
EXTENDS Integers, Sequences, FiniteSets

\* ------------------------------------------------------------------------
\* float64 values
\* ------------------------------------------------------------------------

\* Fixed-point resolution of a finite float: value * SCALE, rounded.
SCALE == 10000

Fin(v) == [t |-> "fin", v |-> v]
NaN == [t |-> "nan", v |-> 0]
\* s = 1 for +Inf, s = -1 for -Inf
Inf(s) == [t |-> "inf", v |-> s]

IsNaN(a) == a.t = "nan"
IsInf(a) == a.t = "inf"
IsFin(a) == a.t = "fin"

Abs(n) == IF n < 0 THEN -n ELSE n
Sgn(n) == IF n < 0 THEN -1 ELSE IF n > 0 THEN 1 ELSE 0

\* Integer quotient a / b rounded to nearest (b # 0), as a float operation
\* rounds its exact result.
Rdiv(a, b) ==
    LET s == IF (a < 0) = (b < 0) THEN 1 ELSE -1
    IN  s * ((2 * Abs(a) + Abs(b)) \div (2 * Abs(b)))

\* Fixed-point product round(a * b / SCALE), split so that the intermediate
\* products stay within TLC's integers.
MulS(a, b) ==
    LET s == IF (a < 0) = (b < 0) THEN 1 ELSE -1
        x == IF Abs(a) < Abs(b) THEN Abs(a) ELSE Abs(b)
        y == IF Abs(a) < Abs(b) THEN Abs(b) ELSE Abs(a)
    IN  s * (x * (y \div SCALE) + Rdiv(x * (y % SCALE), SCALE))

\* Integer square root rounded to nearest: the n with (n - 1/2)^2 < v <= (n + 1/2)^2.
RECURSIVE IsqrtIter(_, _, _)
IsqrtIter(v, lo, hi) ==
    \* invariant: lo * lo <= v < (hi + 1) * (hi + 1)
    IF lo = hi THEN lo
    ELSE LET mid == (lo + hi + 1) \div 2
         IN  IF mid * mid <= v THEN IsqrtIter(v, mid, hi)
             ELSE IsqrtIter(v, lo, mid - 1)

Isqrt(v) ==
    LET f == IsqrtIter(v, 0, 46340)
    IN  IF v - f * f > f THEN f + 1 ELSE f

FNeg(a) ==
    IF IsNaN(a) THEN NaN
    ELSE IF IsInf(a) THEN Inf(-a.v)
    ELSE Fin(-a.v)

FAdd(a, b) ==
    IF IsNaN(a) \/ IsNaN(b) THEN NaN
    ELSE IF IsInf(a) /\ IsInf(b) THEN (IF a.v = b.v THEN a ELSE NaN)
    ELSE IF IsInf(a) THEN a
    ELSE IF IsInf(b) THEN b
    ELSE Fin(a.v + b.v)

FSub(a, b) == FAdd(a, FNeg(b))

FMul(a, b) ==
    IF IsNaN(a) \/ IsNaN(b) THEN NaN
    ELSE IF IsInf(a) \/ IsInf(b)
         THEN (IF Sgn(a.v) * Sgn(b.v) = 0 THEN NaN ELSE Inf(Sgn(a.v) * Sgn(b.v)))
    ELSE Fin(MulS(a.v, b.v))

\* numpy float division: x / 0 is +-Inf, 0 / 0 is NaN (a warning, no exception).
FDiv(a, b) ==
    IF IsNaN(a) \/ IsNaN(b) THEN NaN
    ELSE IF IsInf(a) THEN (IF IsInf(b) THEN NaN
                           ELSE Inf(a.v * (IF b.v < 0 THEN -1 ELSE 1)))
    ELSE IF IsInf(b) THEN Fin(0)
    ELSE IF b.v = 0 THEN (IF a.v = 0 THEN NaN ELSE Inf(Sgn(a.v)))
    ELSE Fin(Rdiv(a.v * SCALE, b.v))

\* a < b on floats: any comparison with NaN is False.
FLess(a, b) ==
    IF IsNaN(a) \/ IsNaN(b) THEN FALSE
    ELSE IF IsInf(a) THEN a.v = -1 /\ ~(IsInf(b) /\ b.v = -1)
    ELSE IF IsInf(b) THEN b.v = 1
    ELSE a.v < b.v

FSqrt(a) ==
    IF IsNaN(a) THEN NaN
    ELSE IF IsInf(a) THEN (IF a.v = 1 THEN a ELSE NaN)
    ELSE IF a.v < 0 THEN NaN
    ELSE Fin(Isqrt(a.v * SCALE))

\* exp(-1) at the fixed-point resolution.
ExpMinusOne == 3679

\* exp(-f) for 0 <= f < 1 (f fixed-point): Taylor series in Horner form,
\* 1 - f (1 - f/2 (1 - f/3 (... (1 - f/10)))).
RECURSIVE ExpFrac(_, _, _)
ExpFrac(f, i, acc) ==
    IF i = 0 THEN acc
    ELSE ExpFrac(f, i - 1, SCALE - Rdiv(MulS(f, acc), i))

RECURSIVE ExpInt(_)
ExpInt(k) == IF k = 0 THEN SCALE ELSE MulS(ExpMinusOne, ExpInt(k - 1))

\* np.exp on a float.
FExp(a) ==
    IF IsNaN(a) THEN NaN
    ELSE IF IsInf(a) THEN (IF a.v = 1 THEN a ELSE Fin(0))
    ELSE IF a.v > 0 THEN Inf(1)  \* not reached: the code only takes exp of -0.5 * y^2
    ELSE LET t == -a.v
         IN  IF t \div SCALE > 12 THEN Fin(0)
             ELSE Fin(MulS(ExpInt(t \div SCALE), ExpFrac(t % SCALE, 10, SCALE)))

\* ------------------------------------------------------------------------
\* Scalar functions of the module, applied elementwise by numpy
\* ------------------------------------------------------------------------

\* (1 - d / cutoff) ** 2
smooth_cutoff(d, cutoff) ==
    LET u == FSub(Fin(SCALE), FDiv(d, cutoff))
    IN  FMul(u, u)

\* 2 * (-1 / cutoff) * (1 - d / cutoff)
smooth_cutoff_derivative(d, cutoff) ==
    FMul(FMul(Fin(2 * SCALE), FDiv(Fin(-SCALE), cutoff)),
         FSub(Fin(SCALE), FDiv(d, cutoff)))

\* np.exp(-0.5 * (x / beta) ** 2)
gaussian(x, beta) ==
    LET y == FDiv(x, beta)
    IN  FExp(FMul(Fin(-(SCALE \div 2)), FMul(y, y)))

\* -(x / beta**2) * gaussian(x, beta)
gaussian_derivative(x, beta) ==
    FMul(FNeg(FDiv(x, FMul(beta, beta))), gaussian(x, beta))

\* The array with the elements of f, each computed once.
Arr(f) == f \o << >>

\* Number of elements of np.arange(0.0, cutoff, alpha) for alpha # 0:
\* ceil(cutoff / alpha), and none when that is not positive.
ArangeLen(cutoff, alpha) ==
    IF (cutoff < 0) = (alpha < 0)
    THEN (Abs(cutoff) + Abs(alpha) - 1) \div Abs(alpha)
    ELSE 0

\* Mutant of radial_grid: floor(cutoff / alpha) points instead of every
\* multiple of alpha below cutoff.
radial_grid_floor(cutoff, alpha) ==
    IF alpha = 0
    THEN [exc |-> "ZeroDivisionError", grid |-> << >>]
    ELSE [exc |-> "none",
          grid |-> Arr([k \in 1..(IF (cutoff < 0) = (alpha < 0)
                                  THEN Abs(cutoff) \div Abs(alpha) ELSE 0)
                        |-> Fin((k - 1) * alpha)])]

\* np.arange(0.0, cutoff, alpha): element k (from 0) is 0.0 + k * alpha;
\* a zero step raises ZeroDivisionError.  cutoff and alpha are fixed-point.
radial_grid(cutoff, alpha) ==
    IF alpha = 0
    THEN [exc |-> "ZeroDivisionError", grid |-> << >>]
    ELSE [exc |-> "none",
          grid |-> Arr([k \in 1..ArangeLen(cutoff, alpha) |-> Fin((k - 1) * alpha)])]

\* ------------------------------------------------------------------------
\* Array helpers
\* ------------------------------------------------------------------------

\* Sum of a sequence of floats in index order (the empty sum is 0.0).
RECURSIVE FSumTo(_, _)
FSumTo(s, n) == IF n = 0 THEN Fin(0) ELSE FAdd(FSumTo(s, n - 1), s[n])

\* Mutant of FSum: the sum stops one element short.
FSum_short(s) == FSumTo(s, IF Len(s) = 0 THEN 0 ELSE Len(s) - 1)

FSum(s) == FSumTo(s, Len(s))

RECURSIVE SumTo(_, _)
SumTo(s, n) == IF n = 0 THEN 0 ELSE SumTo(s, n - 1) + s[n]

\* np.linalg.norm of a vector of floats, sqrt(sum(s * s)).  A float keeps its
\* relative precision for small values, so for finite entries the sum of the
\* squares is kept exact (as hi * SCALE + lo, at resolution SCALE^2) and only
\* the square root rounds; a sum beyond TLC's integers is rounded to hi first.
FNorm(s) ==
    IF \E k \in 1..Len(s) : ~IsFin(s[k])
    THEN FSqrt(FSum(Arr([k \in 1..Len(s) |-> FMul(s[k], s[k])])))
    ELSE LET hi == SumTo(Arr([k \in 1..Len(s) |-> (s[k].v * s[k].v) \div SCALE]), Len(s))
             lo == SumTo(Arr([k \in 1..Len(s) |-> (s[k].v * s[k].v) % SCALE]), Len(s))
         IN  IF hi < 20 * SCALE
             THEN Fin(Isqrt(hi * SCALE + lo))
             ELSE Fin(10 * Isqrt(hi * (SCALE \div 100)))

\* np.linalg.norm(r, axis=1) for one row of fixed-point components: the sum of
\* squares is exact and only the square root rounds.
RowNorm(v) == Fin(Isqrt(v[1] * v[1] + v[2] * v[2] + v[3] * v[3]))

\* ------------------------------------------------------------------------
\* rbf_descriptor(r, cutoff, alpha, beta, normalized)
\* ------------------------------------------------------------------------
\* r is a sequence of rows <<x, y, z>> of fixed-point components; cutoff, alpha
\* and beta are fixed-point numbers.  The result is [exc, p, q]: exc is the
\* exception raised ("none" when the call returns), p[k] the descriptor and
\* q[k][j][a] the Jacobian, k over the grid, j over the neighbors, a over x, y, z.

\* Mutant of Normalize: p and q are divided by the norm and the projection of
\* line 110 is left out.
Normalize_unprojected(p, q) ==
    LET K == Len(p)
        n == IF K = 0 THEN 0 ELSE Len(q[1])
        norm == FNorm(p)
    IN  [p |-> Arr([k \in 1..K |-> FDiv(p[k], norm)]),
         q |-> Arr([k \in 1..K |-> Arr([j \in 1..n |-> Arr([a \in 1..3 |->
                  FDiv(q[k][j][a], norm)])])])]

\* p = p / norm; q = q / norm;
\* q = q - p[..., None, None] * (p[..., None, None] * q).sum(axis=0)
Normalize(p, q) ==
    LET K == Len(p)
        n == IF K = 0 THEN 0 ELSE Len(q[1])
        norm == FNorm(p)
        p1 == Arr([k \in 1..K |-> FDiv(p[k], norm)])
        q1 == Arr([k \in 1..K |-> Arr([j \in 1..n |-> Arr([a \in 1..3 |->
                 FDiv(q[k][j][a], norm)])])])
        pq == Arr([j \in 1..n |-> Arr([a \in 1..3 |->
                 FSum(Arr([k \in 1..K |-> FMul(p1[k], q1[k][j][a])]))])])
        q2 == Arr([k \in 1..K |-> Arr([j \in 1..n |-> Arr([a \in 1..3 |->
                 FSub(q1[k][j][a], FMul(p1[k], pq[j][a]))])])])
    IN  [p |-> p1, q |-> q2]

\* Lines 88-103: the raw descriptor and Jacobian on a given grid.
RawDescriptor(r, cutoff, beta, grid) ==
    LET n == Len(r)
        K == Len(grid)
        d == Arr([j \in 1..n |-> RowNorm(r[j])])
        c == Arr([j \in 1..n |-> smooth_cutoff(d[j], Fin(cutoff))])
        x == Arr([k \in 1..K |-> Arr([j \in 1..n |-> FSub(grid[k], d[j])])])
        g == Arr([k \in 1..K |-> Arr([j \in 1..n |-> gaussian(x[k][j], Fin(beta))])])
        p == Arr([k \in 1..K |-> FSum(Arr([j \in 1..n |-> FMul(g[k][j], c[j])]))])
        D_d_r == Arr([j \in 1..n |-> Arr([a \in 1..3 |-> FDiv(Fin(r[j][a]), d[j])])])
        D_c_d == Arr([j \in 1..n |-> smooth_cutoff_derivative(d[j], Fin(cutoff))])
        D_c_r == Arr([j \in 1..n |-> Arr([a \in 1..3 |-> FMul(D_c_d[j], D_d_r[j][a])])])
        D_g_x == Arr([k \in 1..K |-> Arr([j \in 1..n |->
                    gaussian_derivative(x[k][j], Fin(beta))])])
        D_g_r == Arr([k \in 1..K |-> Arr([j \in 1..n |-> Arr([a \in 1..3 |->
                    FMul(FNeg(D_g_x[k][j]), D_d_r[j][a])])])])
        q == Arr([k \in 1..K |-> Arr([j \in 1..n |-> Arr([a \in 1..3 |->
                FAdd(FMul(D_g_r[k][j][a], c[j]), FMul(g[k][j], D_c_r[j][a]))])])])
    IN  [p |-> p, q |-> q]

\* Mutant of DistancesWithinCutoff: d <= cutoff instead of d < cutoff.
DistancesWithinCutoff_le(r, cutoff) ==
    \A j \in 1..Len(r) : ~FLess(Fin(cutoff), RowNorm(r[j]))

\* assert all(d < cutoff)
DistancesWithinCutoff(r, cutoff) ==
    \A j \in 1..Len(r) : FLess(RowNorm(r[j]), Fin(cutoff))

rbf_descriptor(r, cutoff, alpha, beta, normalized) ==
    IF ~DistancesWithinCutoff(r, cutoff)
    THEN [exc |-> "AssertionError", p |-> << >>, q |-> << >>]
    ELSE LET g == radial_grid(cutoff, alpha)
         IN  IF g.exc # "none"
             THEN [exc |-> g.exc, p |-> << >>, q |-> << >>]
             ELSE LET raw == RawDescriptor(r, cutoff, beta, g.grid)
                      res == IF normalized THEN Normalize(raw.p, raw.q) ELSE raw
                  IN  [exc |-> "none", p |-> res.p, q |-> res.q]

\* ------------------------------------------------------------------------
\* State: one call of a function of the module
\* ------------------------------------------------------------------------
\* pc     position of the call: "call" on entry, "returned" or "raised" at its end
\*        ("neighbors" and "loop" inside get_descriptor_data)
\* args   the arguments of the call
\* ret    the value returned (<< >> until the call returns)
\* exc    the exception that ended the call, "none" otherwise
\* nl, i, rij, descriptor_data   the locals of get_descriptor_data
VARIABLES pc, args, ret, exc, nl, i, rij, descriptor_data

vars == <<pc, args, ret, exc, nl, i, rij, descriptor_data>>

driver_locals == <<nl, i, rij, descriptor_data>>

\* Neighbor rows the kernel is called with (real value times SCALE): the zero
\* vector, distances 1, sqrt 2, sqrt 3 and sqrt 5, and distance 3.
Rows ==
    { <<0, 0, 0>>,
      <<SCALE, 0, 0>>,
      <<0, -SCALE, SCALE>>,
      <<-SCALE, SCALE, SCALE>>,
      <<2 * SCALE, 0, -SCALE>>,
      <<2 * SCALE, -2 * SCALE, SCALE>> }

\* Largest number of neighbors in a call of rbf_descriptor.
MaxNeighbors == 2

RECURSIVE SeqsUpTo(_, _)
SeqsUpTo(S, n) ==
    IF n = 0 THEN { << >> }
    ELSE LET shorter == SeqsUpTo(S, n - 1)
         IN  shorter \cup { Append(s, e) : s \in { t \in shorter : Len(t) = n - 1 }, e \in S }

NoLocals ==
    /\ nl = << >>
    /\ i = 0
    /\ rij = << >>
    /\ descriptor_data = << >>

\* rbf_descriptor called with valid hyper-parameters and any neighbor rows.
InitKernel ==
    /\ pc = "call"
    /\ args \in [ r : SeqsUpTo(Rows, MaxNeighbors),
                  cutoff : { 2 * SCALE, 3 * SCALE },
                  alpha : { SCALE \div 2, SCALE },
                  beta : { SCALE \div 2, SCALE },
                  normalized : BOOLEAN ]
    /\ ret = << >>
    /\ exc = "none"
    /\ NoLocals

\* rbf_descriptor called with any hyper-parameters, the invalid ones included.
InitParams ==
    /\ pc = "call"
    /\ args \in [ r : { << >>, << <<SCALE, 0, 0>> >> },
                  cutoff : { -SCALE, 0, SCALE, 3 * SCALE },
                  alpha : { -(SCALE \div 2), 0, SCALE \div 2, 3 * SCALE, 4 * SCALE },
                  beta : { -(SCALE \div 2), 0, SCALE \div 2 },
                  normalized : BOOLEAN ]
    /\ ret = << >>
    /\ exc = "none"
    /\ NoLocals

\* The whole call of rbf_descriptor: it returns (p, q) or raises.
Call_rbf_descriptor ==
    /\ pc = "call"
    /\ LET res == rbf_descriptor(args.r, args.cutoff, args.alpha, args.beta,
                                 args.normalized)
       IN  \/ /\ res.exc = "none"
              /\ pc' = "returned"
              /\ ret' = [p |-> res.p, q |-> res.q]
              /\ exc' = "none"
           \/ /\ res.exc # "none"
              /\ pc' = "raised"
              /\ ret' = << >>
              /\ exc' = res.exc
    /\ UNCHANGED <<args, driver_locals>>

SpecKernel == InitKernel /\ [][Call_rbf_descriptor]_vars

SpecParams == InitParams /\ [][Call_rbf_descriptor]_vars

\* Largest cutoff and spacing of a radial_grid call, in steps of SCALE / 4.
MaxGridSteps == 8

InitGrid ==
    /\ pc = "call"
    /\ args \in [ cutoff : { k * (SCALE \div 4) : k \in 1..MaxGridSteps },
                  alpha : { k * (SCALE \div 4) : k \in 1..MaxGridSteps } ]
    /\ ret = << >>
    /\ exc = "none"
    /\ NoLocals

\* The whole call of radial_grid.
Call_radial_grid ==
    /\ pc = "call"
    /\ LET res == radial_grid(args.cutoff, args.alpha)
       IN  \/ /\ res.exc = "none"
              /\ pc' = "returned"
              /\ ret' = res.grid
              /\ exc' = "none"
           \/ /\ res.exc # "none"
              /\ pc' = "raised"
              /\ ret' = << >>
              /\ exc' = res.exc
    /\ UNCHANGED <<args, driver_locals>>

SpecGrid == InitGrid /\ [][Call_radial_grid]_vars

\* ------------------------------------------------------------------------
\* Claims about rbf_descriptor (SpecKernel, SpecParams)
\* ------------------------------------------------------------------------

SumSq(v) == v[1] * v[1] + v[2] * v[2] + v[3] * v[3]

IsSpecial(a) == IsNaN(a) \/ IsInf(a)

\* Some entry of the descriptor p or of the Jacobian q is NaN or +-Inf.
HasSpecial(p, q) ==
    \/ \E k \in 1..Len(p) : IsSpecial(p[k])
    \/ \E k \in 1..Len(q) : \E j \in 1..Len(q[k]) : \E a \in 1..3 : IsSpecial(q[k][j][a])

\* C3: with normalization requested and an empty neighbor list, the returned
\* descriptor and Jacobian contain no NaN and no Inf (the defined fallback).
C3_EmptyNeighborsFallback ==
    (pc = "returned" /\ args.normalized /\ args.r = << >>)
        => ~HasSpecial(ret.p, ret.q)

\* C4: if any neighbor has distance d >= cutoff, the call fails at the
\* distance assertion and returns no (p, q).
C4_DistanceBeyondCutoffRaises ==
    (pc # "call" /\ \E j \in 1..Len(args.r) : SumSq(args.r[j]) >= args.cutoff * args.cutoff)
        => (pc = "raised" /\ exc = "AssertionError" /\ ret = << >>)

\* A neighbor exactly at the cutoff (d = cutoff) made the call raise.
C4_Witness ==
    /\ pc = "raised"
    /\ exc = "AssertionError"
    /\ \E j \in 1..Len(args.r) : SumSq(args.r[j]) = args.cutoff * args.cutoff

\* C5: whenever cutoff <= 0, alpha <= 0, beta <= 0 or alpha >= cutoff, the call
\* fails with an error and no descriptor is returned.
C5_InvalidParametersRaise ==
    (pc # "call" /\ ( \/ args.cutoff <= 0
                     \/ args.alpha <= 0
                     \/ args.beta <= 0
                     \/ args.alpha >= args.cutoff ))
        => (pc = "raised" /\ ret = << >>)

\* C7: a neighbor at distance 0 (a zero relative vector) is reported as an
\* error, never turned into a result.
C7_ZeroDistanceRaises ==
    (pc # "call" /\ \E j \in 1..Len(args.r) : SumSq(args.r[j]) = 0)
        => pc = "raised"

\* Tolerance of the comparison with 0: 0.05, at a resolution of 1 / SCALE.
OrthTol == SCALE \div 20

\* The neighbor set of the call is a valid non-empty one: 0 < d for every row
\* (d < cutoff holds of every call that returns).
ValidNeighbors == Len(args.r) > 0 /\ \A j \in 1..Len(args.r) : SumSq(args.r[j]) > 0

\* sum over the grid of p[k] * q[k][j][a]
AlongP(p, q, j, a) == FSum(Arr([k \in 1..Len(p) |-> FMul(p[k], q[k][j][a])]))

\* C8: after normalization with a non-empty neighbor set, the component of the
\* Jacobian along p is projected out: sum_k p[k] * q[k][j][a] is 0, within the
\* tolerance, for every neighbor j and coordinate a.
C8_JacobianOrthogonalToP ==
    (pc = "returned" /\ args.normalized /\ ValidNeighbors)
        => \A j \in 1..Len(args.r) : \A a \in 1..3 :
              LET s == AlongP(ret.p, ret.q, j, a)
              IN  IsFin(s) /\ Abs(s.v) <= OrthTol

\* A normalized call with two neighbors returned a Jacobian with a non-zero entry.
C8_Witness ==
    /\ pc = "returned"
    /\ args.normalized
    /\ ValidNeighbors
    /\ Len(args.r) = 2
    /\ \E k \in 1..Len(ret.q) : \E a \in 1..3 : Abs(ret.q[k][2][a].v) > OrthTol

Perms(n) == { f \in [1..n -> 1..n] : \A a, b \in 1..n : f[a] = f[b] => a = b }

Permuted(s, f) == Arr([m \in 1..Len(s) |-> s[f[m]]])

\* C9: for any permutation of the rows of r, the call ends the same way, the
\* descriptor p is unchanged and the neighbor axis of q is permuted alike.
C9_PermutationInvariance ==
    pc # "call" =>
        \A f \in Perms(Len(args.r)) :
            LET res == rbf_descriptor(Permuted(args.r, f), args.cutoff, args.alpha,
                                      args.beta, args.normalized)
            IN  /\ res.exc = exc
                /\ pc = "returned" =>
                      /\ res.p = ret.p
                      /\ \A k \in 1..Len(ret.q) : res.q[k] = Permuted(ret.q[k], f)

\* A call with two neighbors at different distances returned.
C9_Witness ==
    /\ pc = "returned"
    /\ Len(args.r) = 2
    /\ SumSq(args.r[1]) # SumSq(args.r[2])
    /\ SumSq(args.r[1]) > 0
    /\ SumSq(args.r[2]) > 0

\* ------------------------------------------------------------------------
\* Claims about radial_grid (SpecGrid)
\* ------------------------------------------------------------------------

\* Point k (from 0) of the returned grid is k * alpha.
GridPointsAreMultiples ==
    \A k \in 1..Len(ret) : ret[k] = Fin((k - 1) * args.alpha)

\* C6, as stated: for positive cutoff and alpha with alpha < cutoff the grid has
\* exactly floor(cutoff / alpha) points, point k being k * alpha.
C6_FloorLength ==
    (pc = "returned" /\ args.alpha < args.cutoff)
        => (Len(ret) = args.cutoff \div args.alpha /\ GridPointsAreMultiples)

\* C6, amended: for positive cutoff and alpha with alpha < cutoff the grid holds
\* every multiple k * alpha below cutoff, in order: ceil(cutoff / alpha) points,
\* the last one below cutoff and the next multiple not below it.
C6_CeilLength ==
    (pc = "returned" /\ args.alpha < args.cutoff)
        => /\ GridPointsAreMultiples
           /\ (Len(ret) - 1) * args.alpha < args.cutoff
           /\ Len(ret) * args.alpha >= args.cutoff

\* A grid was built for a cutoff that is no multiple of alpha: it has one point
\* more than floor(cutoff / alpha).
C6_Witness ==
    /\ pc = "returned"
    /\ args.alpha < args.cutoff
    /\ args.cutoff % args.alpha # 0
    /\ Len(ret) = args.cutoff \div args.alpha + 1

\* ------------------------------------------------------------------------
\* get_descriptor_data(atoms, cutoff, alpha, beta)
\* ------------------------------------------------------------------------
\* args.positions[i] is the position of atom i (atoms are numbered from 1),
\* args.cell the three cell vectors, one per row.  The neighbor list is the
\* answer of an external module: nl[i], the answer of nl.get_neighbors(i - 1), is a
\* sequence of entries [j |-> neighbor index, offset |-> <<o1, o2, o3>>] and is
\* any value of NeighborAnswers(i, N) (Python numbers the atoms from 0), drawn when the loop asks for it.

\* Largest number of atoms of a structure.
MaxAtoms == 2

\* Positions of the atoms of the structures, in atom order.
AtomPositions ==
    << <<0, 0, 0>>, <<SCALE, 0, 0>>, <<0, SCALE, SCALE>>, <<SCALE, SCALE, 0>> >>

\* A cubic cell and a sheared one (its second cell vector leans along x).
Cells ==
    { << <<2 * SCALE, 0, 0>>, <<0, 2 * SCALE, 0>>, <<0, 0, 2 * SCALE>> >>,
      << <<2 * SCALE, 0, 0>>, <<SCALE, 2 * SCALE, 0>>, <<0, 0, 2 * SCALE>> >> }

\* Entries nl.get_neighbors(i) may hold: an image of atom i itself, and the
\* next atom or an image of it.
NeighborEntries(atom, N) ==
    LET nxt == (atom % N) + 1
    IN  { [j |-> atom, offset |-> <<0, 1, 0>>],
          [j |-> nxt, offset |-> <<0, 0, 0>>],
          [j |-> nxt, offset |-> <<0, 1, 0>>] }

NeighborAnswers(atom, N) ==
    LET E == NeighborEntries(atom, N)
    IN  { << >> } \cup { <<e>> : e \in E } \cup { <<e, f>> : e \in E, f \in E }

InitDriver ==
    /\ pc = "call"
    /\ \E N \in 1..MaxAtoms :
          args \in [ positions : { SubSeq(AtomPositions, 1, N) },
                     cell : Cells,
                     cutoff : { 3 * SCALE },
                     alpha : { SCALE },
                     beta : { SCALE } ]
    /\ ret = << >>
    /\ exc = "none"
    /\ NoLocals

\* Mutant of Shifts: the offset weights the columns of the cell.
Shifts_columns(offset, cell) ==
    [b \in 1..3 |->
        offset[1] * cell[b][1] + offset[2] * cell[b][2] + offset[3] * cell[b][3]]

\* One row of (offsets[..., None] * atoms.cell).sum(axis=1).
Shifts(offset, cell) ==
    LET prod == [a \in 1..3 |-> [b \in 1..3 |-> offset[a] * cell[a][b]]]
    IN  [b \in 1..3 |-> prod[1][b] + prod[2][b] + prod[3][b]]

\* rij = atoms.positions[j] - atoms.positions[i] + shifts
RelativeVectors(positions, cell, atom, neighbors) ==
    [n \in 1..Len(neighbors) |->
        LET shift == Shifts(neighbors[n].offset, cell)
        IN  [b \in 1..3 |-> positions[neighbors[n].j][b] - positions[atom][b] + shift[b]]]

\* j of "j, offsets = nl.get_neighbors(i)"
NeighborIndices(neighbors) == [n \in 1..Len(neighbors) |-> neighbors[n].j]

\* Mutant of Appended: the entry is put in front.
Appended_front(data, entry) == <<entry>> \o data

\* descriptor_data.append((j, d, jac))
Appended(data, entry) == Append(data, entry)

\* Lines 59-60: the neighbor list is built and the result list is empty.
Driver_enter ==
    /\ pc = "call"
    /\ "positions" \in DOMAIN args
    /\ pc' = "loop"
    /\ nl' = << >>
    /\ descriptor_data' = << >>
    /\ UNCHANGED <<args, ret, exc, i, rij>>

\* Lines 61-67: one iteration of the loop, for the next atom.
Driver_iteration ==
    /\ pc = "loop"
    /\ i < Len(args.positions)
    /\ \E neighbors \in NeighborAnswers(i + 1, Len(args.positions)) :
          LET r == RelativeVectors(args.positions, args.cell, i + 1, neighbors)
              res == rbf_descriptor(r, args.cutoff, args.alpha, args.beta, TRUE)
          IN  /\ i' = i + 1
              /\ nl' = Append(nl, neighbors)
              /\ rij' = r
              /\ \/ /\ res.exc = "none"
                    /\ descriptor_data' =
                          Appended(descriptor_data,
                                   <<NeighborIndices(neighbors), res.p, res.q>>)
                    /\ UNCHANGED <<pc, exc>>
                 \/ /\ res.exc # "none"
                    /\ pc' = "raised"
                    /\ exc' = res.exc
                    /\ UNCHANGED descriptor_data
    /\ UNCHANGED <<args, ret>>

\* Line 68: the loop is over and the list is returned.
Driver_return ==
    /\ pc = "loop"
    /\ i = Len(args.positions)
    /\ pc' = "returned"
    /\ ret' = descriptor_data
    /\ UNCHANGED <<args, exc, nl, i, rij, descriptor_data>>

NextDriver == Driver_enter \/ Driver_iteration \/ Driver_return

SpecDriver == InitDriver /\ [][NextDriver]_vars

\* ------------------------------------------------------------------------
\* Claims about get_descriptor_data (SpecDriver)
\* ------------------------------------------------------------------------

\* The relative vector of entry e of atom a: position[j] - position[a] plus the
\* cell rows weighted by the offset.
ExpectedRow(a, e) ==
    [b \in 1..3 |->
        args.positions[e.j][b] - args.positions[a][b]
        + e.offset[1] * args.cell[1][b]
        + e.offset[2] * args.cell[2][b]
        + e.offset[3] * args.cell[3][b]]

ExpectedRij(a) == [n \in 1..Len(nl[a]) |-> ExpectedRow(a, nl[a][n])]

\* The entry of atom a: its neighbor indices and the descriptor and Jacobian of
\* its own relative vectors.
ExpectedEntry(a) ==
    LET res == rbf_descriptor(ExpectedRij(a), args.cutoff, args.alpha, args.beta, TRUE)
    IN  << [n \in 1..Len(nl[a]) |-> nl[a][n].j], res.p, res.q >>

C10_RelativeVectorsUseCellRows ==
    (i >= 1 /\ pc \in {"loop", "raised", "returned"}) =>
        /\ Len(rij) = Len(nl[i])
        /\ \A n \in 1..Len(rij) : rij[n] = ExpectedRow(i, nl[i][n])
        /\ pc = "loop" =>
              /\ Len(descriptor_data) = i
              /\ descriptor_data[i][1] = [n \in 1..Len(nl[i]) |-> nl[i][n].j]

\* An atom was processed in the sheared cell with a neighbor across the second
\* cell vector, where the rows and the columns of the cell give different shifts.
C10_Witness ==
    /\ pc = "loop"
    /\ i >= 1
    /\ Len(rij) = 2
    /\ nl[i][1] # nl[i][2]
    /\ \E n \in 1..2 : rij[n] # [b \in 1..3 |->
            args.positions[nl[i][n].j][b] - args.positions[i][b]
            + Shifts_columns(nl[i][n].offset, args.cell)[b]]

====
